---- MODULE Spec2Model ----
(***************************************************************************)
(* Model of restic-to-influxdb (src/src/main.rs): the loop of main() that  *)
(* reads the JSON lines restic prints, throttles the status messages and   *)
(* writes status and summary points to InfluxDB.                           *)
(*                                                                         *)
(* A line of text is modelled by what serde_json makes of it: whether it   *)
(* parses, whether the value is an object, and for each field name the     *)
(* JSON type and value it carries (or that it is absent).  The wall clock  *)
(* is the variable now; Tick advances it between any two steps of the      *)
(* loop, and the loop is cut into steps at each of its reads of the clock  *)
(* and at the awaited write.                                               *)
(***************************************************************************)
EXTENDS Integers, Sequences, FiniteSets, TLC

VARIABLES pc, line, nread, now, start, interval, print_time, out, sink,
          stdout, stderr,
          dry_run, \* the command line asks for --dry-run
          nstatus  \* history: the number of lines so far with type_ "status"

vars == <<pc, line, nread, now, start, interval, print_time, out, sink,
          stdout, stderr, dry_run, nstatus>>

\* ------------------------------------------------------------------ bounds
MaxLines == 2
MaxTime == 2
MaxInterval == 2
ScenarioLines == 25

\* Cli.interval's default value
DefaultInterval == 10

\* ------------------------------------------------------------ JSON values
\* A JSON value is abstracted to its type t and, for numbers, its value n,
\* for strings its text s.  "absent" marks a key the object does not have.
AbsentV == [t |-> "absent", n |-> 0, s |-> ""]
NullV == [t |-> "null", n |-> 0, s |-> ""]
NatV(k) == [t |-> "nat", n |-> k, s |-> ""]
FloatV(k) == [t |-> "float", n |-> k, s |-> ""]
StrV(x) == [t |-> "str", n |-> 0, s |-> x]
ArrV(k) == [t |-> "arr", n |-> k, s |-> ""]

\* struct StatusMessage: the fields without Option, and those with
StatusRequired ==
  {"seconds_elapsed", "percent_done", "total_files", "files_done",
   "total_bytes", "bytes_done"}

StatusOptional == {"seconds_remaining", "error_count", "current_files"}

\* struct StatusMessageOut: the fields beside time
StatusOutFields ==
  {"message_type", "seconds_elapsed", "seconds_remaining", "percent_done",
   "total_files", "files_done", "total_bytes", "bytes_done", "error_count"}

\* struct SummaryMessage: the u64 fields
SummaryCounts ==
  {"files_new", "files_changed", "files_unmodified", "dirs_new",
   "dirs_changed", "dirs_unmodified", "data_blobs", "tree_blobs",
   "data_added", "total_files_processed", "total_bytes_processed"}

\* struct SummaryMessage: every field beside message_type
SummaryRequired == SummaryCounts \cup {"total_duration", "snapshot_id"}

\* struct SummaryMessageOut: the fields beside time
SummaryOutFields == SummaryRequired \cup {"message_type"}

\* the keys of restic's error message; main.rs declares no struct for it
ErrorFields == {"during", "item"}

FieldNames ==
  {"message_type", "time"} \cup StatusRequired \cup StatusOptional
    \cup SummaryRequired \cup ErrorFields

\* ------------------------------------------------------------ serde decode
\* what serde accepts for a field of each Rust type
U64Ok(v) == v.t = "nat"
F64Ok(v) == v.t \in {"nat", "float"}
StringOk(v) == v.t = "str"
OptU64Ok(v) == v.t \in {"absent", "null", "nat"}
OptVecOk(v) == v.t \in {"absent", "null", "arr"}

\* Option<u64>::unwrap_or(0) of a decoded optional field
UnwrapOr0(v) == IF v.t = "nat" THEN v ELSE NatV(0)

\* serde_json::from_str::<Value>(&line) is Ok
IsJson(l) == l.shape # "garbage"

\* Value::as_object() is Some
IsObject(l) == l.shape = "object"

\* serde_json::from_str::<StatusMessage>(&line) is Ok
StatusDecodes(l) ==
  /\ IsObject(l)
  /\ StringOk(l.f["message_type"])
  /\ \A k \in StatusRequired \ {"percent_done"} : U64Ok(l.f[k])
  /\ F64Ok(l.f["percent_done"])
  /\ OptU64Ok(l.f["seconds_remaining"])
  /\ OptU64Ok(l.f["error_count"])
  /\ OptVecOk(l.f["current_files"])

\* serde_json::from_str::<SummaryMessage>(&line) is Ok
SummaryDecodes(l) ==
  /\ IsObject(l)
  /\ StringOk(l.f["message_type"])
  /\ \A k \in SummaryCounts : U64Ok(l.f[k])
  /\ F64Ok(l.f["total_duration"])
  /\ StringOk(l.f["snapshot_id"])

\* ------------------------------------------------------------ input lines
NoFields == [k \in FieldNames |-> AbsentV]

\* text that is not JSON, and JSON that is not an object (42, [], "x")
Garbage == [shape |-> "garbage", f |-> NoFields]
Scalar == [shape |-> "scalar", f |-> NoFields]
NoLine == [shape |-> "none", f |-> NoFields]

Obj(fields) == [shape |-> "object", f |-> fields]

\* the object l without the keys of S, and with key k set to v
Without(l, S) ==
  [l EXCEPT !.f = [k \in FieldNames |-> IF k \in S THEN AbsentV ELSE l.f[k]]]

With(l, k, v) == [l EXCEPT !.f[k] = v]

\* a status message with every key restic can print
FullStatus ==
  Obj([k \in FieldNames |->
        CASE k = "message_type" -> StrV("status")
          [] k = "seconds_elapsed" -> NatV(34)
          [] k = "seconds_remaining" -> NatV(5)
          [] k = "percent_done" -> FloatV(1)
          [] k = "total_files" -> NatV(10)
          [] k = "files_done" -> NatV(9)
          [] k = "total_bytes" -> NatV(1000)
          [] k = "bytes_done" -> NatV(900)
          [] k = "error_count" -> NatV(2)
          [] k = "current_files" -> ArrV(1)
          [] OTHER -> AbsentV])

\* a summary message with every key
FullSummary ==
  Obj([k \in FieldNames |->
        CASE k = "message_type" -> StrV("summary")
          [] k \in SummaryCounts -> NatV(4)
          [] k = "total_duration" -> FloatV(555)
          [] k = "snapshot_id" -> StrV("59717ddd")
          [] OTHER -> AbsentV])

\* an error message with both keys
FullError ==
  Obj([k \in FieldNames |->
        CASE k = "message_type" -> StrV("error")
          [] k \in ErrorFields -> StrV("x")
          [] OTHER -> AbsentV])

\* the keys the specification of the status message calls optional
SpecOptional ==
  {"seconds_remaining", "error_count", "files_done", "bytes_done",
   "current_files"}

\* status lines that have every key StatusMessage requires
GoodStatusLines == {Without(FullStatus, S) : S \in SUBSET StatusOptional}

StatusLines ==
  {Without(FullStatus, S) : S \in SUBSET SpecOptional}
    \cup {Without(FullStatus, {k}) :
            k \in {"seconds_elapsed", "percent_done", "total_files",
                   "total_bytes"}}
    \cup {With(FullStatus, "seconds_elapsed", StrV("34")),
          With(FullStatus, "seconds_remaining", NullV),
          With(FullStatus, "error_count", StrV("2")),
          With(FullStatus, "time", NatV(1))}

SummaryLines ==
  {FullSummary}
    \cup {Without(FullSummary, {k}) : k \in SummaryRequired}
    \cup {With(FullSummary, "files_new", StrV("4")),
          With(FullSummary, "time", NatV(1))}

ErrorLines == {Without(FullError, S) : S \in SUBSET ErrorFields}

\* valid JSON without a message_type string
UntypedLines ==
  {Scalar, Without(FullStatus, {"message_type"}),
   With(FullStatus, "message_type", NatV(1)),
   With(FullSummary, "message_type", NullV)}

\* objects whose message_type is a string the program does not know
UnknownTypes == {"Status", "SUMMARY", "", "verbose_status"}

UnknownLines ==
  {With(FullStatus, "message_type", StrV(x)) : x \in UnknownTypes}
    \cup {With(FullError, "message_type", StrV("Error"))}

Lines ==
  {Garbage} \cup UntypedLines \cup UnknownLines \cup StatusLines
    \cup SummaryLines \cup ErrorLines

\* ------------------------------------------------------------------ points
NoPoint == [measurement |-> "none", time |-> 0, f |-> NoFields]

\* the point stamped with the "time" of the line when it has one
StatusOut_inputtime(l, t) ==
  [measurement |-> "status_message",
   time |-> IF l.f["time"].t = "nat" THEN l.f["time"].n ELSE t,
   f |-> [k \in FieldNames |->
           CASE k \in {"seconds_remaining", "error_count"} -> UnwrapOr0(l.f[k])
             [] k = "percent_done" -> FloatV(l.f[k].n)
             [] k \in StatusOutFields \ {"seconds_remaining", "error_count",
                                         "percent_done"} -> l.f[k]
             [] OTHER -> AbsentV]]

\* StatusMessageOut { time, ..status } and into_query("status_message")
StatusOut(l, t) ==
  [measurement |-> "status_message",
   time |-> t,
   f |-> [k \in FieldNames |->
           CASE k \in {"seconds_remaining", "error_count"} -> UnwrapOr0(l.f[k])
             [] k = "percent_done" -> FloatV(l.f[k].n)
             [] k \in StatusOutFields \ {"seconds_remaining", "error_count",
                                         "percent_done"} -> l.f[k]
             [] OTHER -> AbsentV]]

\* SummaryMessageOut { time, ..summary } and into_query("summary_message")
SummaryOut(l, t) ==
  [measurement |-> "summary_message",
   time |-> t,
   f |-> [k \in FieldNames |->
           CASE k = "total_duration" -> FloatV(l.f[k].n)
             [] k \in SummaryOutFields \ {"total_duration"} -> l.f[k]
             [] OTHER -> AbsentV]]

\* ----------------------------------------------------------------- sampler
\* the seed two intervals in the past
InitPrintTime_twice(t, iv) == t - 2 * iv

\* the seed with the interval added instead of subtracted
InitPrintTime_plus(t, iv) == t + iv

\* let mut print_time = Utc::now() - Duration::from_secs(cli.interval)
InitPrintTime(t, iv) == t - iv

\* the comparison with <= instead of <
Throttled_le(t, pt, iv) == t <= pt + iv

\* the comparison without the interval
Throttled_noiv(t, pt, iv) == t < pt

\* Utc::now() < print_time + Duration::from_secs(cli.interval)
Throttled(t, pt, iv) == t < pt + iv

\* -------------------------------------------------------------- classifier
\* the chain comparing type_ without regard to case
Branch_nocase(type_) ==
  CASE type_ \in {"status", "Status"} -> "status"
    [] type_ \in {"summary", "SUMMARY"} -> "summary"
    [] OTHER -> "read"

\* the branch of the if / else if chain on type_
Branch(type_) ==
  CASE type_ = "status" -> "status"
    [] type_ = "summary" -> "summary"
    [] type_ = "error" -> "read"
    [] OTHER -> "read"

\* the parse result unwrapped instead of matched
ClassifyPc_unwrap(l) ==
  IF ~IsJson(l) \/ ~IsObject(l) \/ l.f["message_type"].t # "str"
  THEN "panicked"
  ELSE Branch(l.f["message_type"].s)

\* where the loop goes after parsing line l and taking its message_type:
\* continue on a parse error, a panic of one of the three unwrap() calls on
\* a value that is no object or has no message_type string, else the branch
ClassifyPc(l) ==
  IF ~IsJson(l) THEN "read"
  ELSE IF ~IsObject(l) \/ l.f["message_type"].t # "str" THEN "panicked"
  ELSE Branch(l.f["message_type"].s)

Running == pc \notin {"usage", "done", "panicked", "failed"}

\* ------------------------------------------------------------------ actions
\* the options of struct Cli
CliFields == {"verbose", "interval", "user", "password", "database", "host"}

\* the state when the loop is entered, the process started at time st with
\* --interval iv
InitWith(st, iv) ==
  /\ dry_run = FALSE
  /\ interval = iv
  /\ start = st
  /\ now = start
  /\ print_time = InitPrintTime(start, interval)
  /\ pc = "read"
  /\ line = NoLine
  /\ nread = 0
  /\ out = NoPoint
  /\ sink = <<>>
  /\ stdout = <<>>
  /\ stderr = <<>>
  /\ nstatus = 0

\* Cli::parse() on a command line with --dry-run, which is no option of
\* Cli: clap reports the unexpected argument and exits before line 112
UsageExit ==
  /\ "dry_run" \notin CliFields
  /\ dry_run = TRUE
  /\ pc = "usage"
  /\ stderr = <<"unexpected argument">>
  /\ interval = 0
  /\ start = 0
  /\ now = 0
  /\ print_time = 0
  /\ line = NoLine
  /\ nread = 0
  /\ out = NoPoint
  /\ sink = <<>>
  /\ stdout = <<>>
  /\ nstatus = 0

Init ==
  \/ \E iv \in 0..MaxInterval : InitWith(0, iv)
  \/ UsageExit

\* the wall clock advances
Tick ==
  /\ UNCHANGED <<dry_run, nstatus>>
  /\ Running
  /\ now < MaxTime
  /\ now' = now + 1
  /\ UNCHANGED <<pc, line, nread, start, interval, print_time, out, sink,
                 stdout, stderr>>

\* stdin.lock().lines() yields Ok(l) at time t; line.unwrap()
ReadAt(t, l) ==
  /\ UNCHANGED <<dry_run, nstatus>>
  /\ pc = "read"
  /\ now' = t
  /\ line' = l
  /\ nread' = nread + 1
  /\ pc' = "parse"
  /\ UNCHANGED <<start, interval, print_time, out, sink, stdout, stderr>>

ReadLine ==
  /\ nread < MaxLines
  /\ \E l \in Lines : ReadAt(now, l)

\* lines() yields Err (an I/O error, bytes that are not UTF-8): unwrap panics
ReadErr ==
  /\ UNCHANGED <<dry_run, nstatus>>
  /\ pc = "read"
  /\ nread < MaxLines
  /\ pc' = "panicked"
  /\ stderr' = Append(stderr, "unwrap on Err")
  /\ UNCHANGED <<line, nread, now, start, interval, print_time, out, sink,
                 stdout>>

\* lines() is exhausted: the loop ends and main returns Ok(())
EndOfInput ==
  /\ UNCHANGED <<dry_run, nstatus>>
  /\ pc = "read"
  /\ pc' = "done"
  /\ UNCHANGED <<line, nread, now, start, interval, print_time, out, sink,
                 stdout, stderr>>

\* parse the line, take message_type, choose the branch
Classify ==
  /\ pc = "parse"
  /\ pc' = ClassifyPc(line)
  /\ nstatus' = IF ClassifyPc(line) = "status" THEN nstatus + 1 ELSE nstatus
  /\ UNCHANGED dry_run
  /\ stderr' = IF ClassifyPc(line) = "panicked"
               THEN Append(stderr, "unwrap on None") ELSE stderr
  /\ UNCHANGED <<line, nread, now, start, interval, print_time, out, sink,
                 stdout>>

\* the line decoded before the interval is checked
StatusCheck_decodefirst ==
  /\ UNCHANGED <<dry_run, nstatus>>
  /\ pc = "status"
  /\ IF ~StatusDecodes(line)
     THEN pc' = "panicked" /\ stderr' = Append(stderr, "Parse error")
     ELSE /\ pc' = IF Throttled(now, print_time, interval) THEN "read"
                   ELSE "stamp"
          /\ stderr' = stderr
  /\ UNCHANGED <<line, nread, now, start, interval, print_time, out, sink,
                 stdout>>

\* if Utc::now() < print_time + interval { continue; }
StatusCheck ==
  /\ UNCHANGED <<dry_run, nstatus>>
  /\ pc = "status"
  /\ pc' = IF Throttled(now, print_time, interval) THEN "read" ELSE "stamp"
  /\ UNCHANGED <<line, nread, now, start, interval, print_time, out, sink,
                 stdout, stderr>>

\* the decode without the assignment to print_time
StatusStamp_nostamp ==
  /\ UNCHANGED <<dry_run, nstatus>>
  /\ pc = "stamp"
  /\ IF StatusDecodes(line)
     THEN pc' = "build" /\ stderr' = stderr
     ELSE pc' = "panicked" /\ stderr' = Append(stderr, "Parse error")
  /\ UNCHANGED <<line, nread, now, start, interval, print_time, out, sink,
                 stdout>>

\* print_time = Utc::now(); decode the line as StatusMessage or panic
StatusStamp ==
  /\ UNCHANGED <<dry_run, nstatus>>
  /\ pc = "stamp"
  /\ print_time' = now
  /\ IF StatusDecodes(line)
     THEN pc' = "build" /\ stderr' = stderr
     ELSE pc' = "panicked" /\ stderr' = Append(stderr, "Parse error")
  /\ UNCHANGED <<line, nread, now, start, interval, out, sink, stdout>>

\* build StatusMessageOut with time = SystemTime::now(), print it, make the
\* query
StatusBuild ==
  /\ UNCHANGED <<dry_run, nstatus>>
  /\ pc = "build"
  /\ out' = StatusOut(line, now)
  /\ stdout' = Append(stdout, "StatusMessageOut")
  /\ pc' = "write"
  /\ UNCHANGED <<line, nread, now, start, interval, print_time, sink, stderr>>

\* the summary branch behind the check of the status branch
SummaryBuild_throttled ==
  /\ UNCHANGED <<dry_run, nstatus>>
  /\ pc = "summary"
  /\ IF Throttled(now, print_time, interval)
     THEN pc' = "read" /\ UNCHANGED <<out, stdout, stderr>>
     ELSE /\ out' = SummaryOut(line, now)
          /\ stdout' = Append(stdout, "SummaryMessage")
          /\ pc' = IF SummaryDecodes(line) THEN "write" ELSE "panicked"
          /\ stderr' = stderr
  /\ UNCHANGED <<line, nread, now, start, interval, print_time, sink>>

\* decode the line as SummaryMessage or panic; print it; build
\* SummaryMessageOut with time = SystemTime::now(); make the query
SummaryBuild ==
  /\ UNCHANGED <<dry_run, nstatus>>
  /\ pc = "summary"
  /\ IF SummaryDecodes(line)
     THEN /\ out' = SummaryOut(line, now)
          /\ stdout' = Append(stdout, "SummaryMessage")
          /\ pc' = "write"
          /\ stderr' = stderr
     ELSE /\ pc' = "panicked"
          /\ stderr' = Append(stderr, "Parse error")
          /\ UNCHANGED <<out, stdout>>
  /\ UNCHANGED <<line, nread, now, start, interval, print_time, sink>>

\* the new point put before the points already written
WriteOk_prepend ==
  /\ UNCHANGED <<dry_run, nstatus>>
  /\ pc = "write"
  /\ sink' = <<out>> \o sink
  /\ out' = NoPoint
  /\ pc' = "read"
  /\ UNCHANGED <<line, nread, now, start, interval, print_time, stdout,
                 stderr>>

\* print_time set when the write has completed
WriteOk_stamp ==
  /\ UNCHANGED <<dry_run, nstatus>>
  /\ pc = "write"
  /\ sink' = Append(sink, out)
  /\ out' = NoPoint
  /\ pc' = "read"
  /\ print_time' = IF out.measurement = "status_message" THEN now
                   ELSE print_time
  /\ UNCHANGED <<line, nread, now, start, interval, stdout, stderr>>

\* client.query(&query).await is Ok: the point is in the database
WriteOk ==
  /\ UNCHANGED <<dry_run, nstatus>>
  /\ pc = "write"
  /\ sink' = Append(sink, out)
  /\ out' = NoPoint
  /\ pc' = "read"
  /\ UNCHANGED <<line, nread, now, start, interval, print_time, stdout,
                 stderr>>

\* the error of the write dropped and the loop continued
WriteFail_continue ==
  /\ UNCHANGED <<dry_run, nstatus>>
  /\ pc = "write"
  /\ out' = NoPoint
  /\ pc' = "read"
  /\ UNCHANGED <<line, nread, now, start, interval, print_time, sink, stdout,
                 stderr>>

\* client.query(&query).await is Err: ? returns it from main
WriteFail ==
  /\ UNCHANGED <<dry_run, nstatus>>
  /\ pc = "write"
  /\ out' = NoPoint
  /\ pc' = "failed"
  /\ UNCHANGED <<line, nread, now, start, interval, print_time, sink, stdout,
                 stderr>>

Next ==
  \/ Tick
  \/ ReadLine
  \/ ReadErr
  \/ EndOfInput
  \/ Classify
  \/ StatusCheck
  \/ StatusStamp
  \/ StatusBuild
  \/ SummaryBuild
  \/ WriteOk
  \/ WriteFail

Spec == Init /\ [][Next]_vars

\* ------------------------------------------------- the 25 second scenario
\* --interval 10 (the default); the process starts at or before t = 0; the
\* k-th line (k = 0, 1, ...) is a status line that decodes, arrives at
\* t = k and is handled within that second; every write succeeds.
InitC1 == \E st \in {-1, 0} : InitWith(st, DefaultInterval)

ArriveC1 ==
  /\ nread < ScenarioLines
  /\ \E l \in GoodStatusLines : ReadAt(nread, l)

EndC1 ==
  /\ nread = ScenarioLines
  /\ EndOfInput

NextC1 ==
  \/ ArriveC1
  \/ Classify
  \/ StatusCheck
  \/ StatusStamp
  \/ StatusBuild
  \/ WriteOk
  \/ EndC1

SpecC1 == InitC1 /\ [][NextC1]_vars

\* ================================================================== claims
\* helpers of the claims' statements
Last(q) == q[Len(q)]

HasType(l) == IsObject(l) /\ l.f["message_type"].t = "str"

TypeIs(l, x) == HasType(l) /\ l.f["message_type"].s = x

KnownTypes == {"status", "summary", "error"}

\* what a step that discards a line silently leaves alone
Untouched == UNCHANGED <<print_time, out, sink, stdout, stderr>>

\* ---------------------------------------------------------------------- C1
\* C1: with interval = 10 and a decodable Status line at each of
\* t = 0, 1, ..., 24, the sink holds at every moment a prefix of the three
\* Status points stamped 0, 10 and 20, and exactly these three at the end
\* of the input.
C1_ThreePoints ==
  /\ Len(sink) <= 3
  /\ \A i \in 1..Len(sink) :
       /\ sink[i].measurement = "status_message"
       /\ sink[i].time = <<0, 10, 20>>[i]
  /\ pc = "done" => Len(sink) = 3

C1_Witness ==
  /\ pc = "done"
  /\ nread = ScenarioLines
  /\ Len(sink) = 3
  /\ sink[3].time = 20

\* ---------------------------------------------------------------------- C2
\* C2: the first line with message_type "status", whatever the interval and
\* the time elapsed since the start, is never dropped by the interval check:
\* it goes on to be stamped and decoded.
C2_FirstStatusPasses ==
  [][(pc = "status" /\ nstatus = 1 /\ pc' # "status") => pc' = "stamp"]_vars

C2_Witness ==
  /\ interval > 0
  /\ nstatus = 1
  /\ TypeIs(line, "status")
  /\ Len(sink) = 1
  /\ sink[1].measurement = "status_message"
  /\ sink[1].time = start

\* ---------------------------------------------------------------------- C3
\* C3: a Status line passes the check only when the clock is at least
\* interval past print_time, the time recorded for the previous Status
\* point; print_time moves only at such a line and then by at least
\* interval; a Status line inside the window goes back to reading with no
\* point, no output and print_time as it was; and a Status point reaches the
\* sink only from a line that passed the check.
C3_OnePerInterval ==
  [][/\ (pc = "status" /\ pc' = "stamp") => now >= print_time + interval
     /\ (pc = "status" /\ pc' = "read") =>
          now < print_time + interval /\ Untouched
     /\ print_time' # print_time =>
          pc = "stamp" /\ print_time' >= print_time + interval
     /\ (Len(sink') > Len(sink) /\ Last(sink').measurement = "status_message")
          => /\ pc = "write"
             /\ TypeIs(line, "status")
             /\ Last(sink').time >= print_time]_vars

\* a Status line dropped inside the window of an emitted Status point
C3_Witness ==
  /\ pc = "read"
  /\ nread = 2
  /\ TypeIs(line, "status")
  /\ StatusDecodes(line)
  /\ Len(sink) = 1
  /\ sink[1].measurement = "status_message"
  /\ now < print_time + interval

\* ---------------------------------------------------------------------- C4
\* C4: a Summary line goes to the summary branch; if it decodes, the branch
\* hands one summary_message point to the sink without consulting or
\* changing print_time, and the completed write adds exactly that point.
C4_SummaryBypasses ==
  [][/\ (pc = "parse" /\ TypeIs(line, "summary") /\ pc' # "parse")
          => pc' = "summary"
     /\ (pc = "summary" /\ SummaryDecodes(line) /\ pc' # "summary")
          => /\ pc' = "write"
             /\ out'.measurement = "summary_message"
             /\ UNCHANGED <<print_time, sink>>
     /\ (pc = "write" /\ out.measurement = "summary_message" /\ pc' = "read")
          => sink' = Append(sink, out) /\ print_time' = print_time]_vars

\* a Summary point written with zero delay after a Status point, inside the
\* window in which a Status line is dropped
C4_Witness ==
  /\ pc = "read"
  /\ Len(sink) = 2
  /\ sink[1].measurement = "status_message"
  /\ sink[2].measurement = "summary_message"
  /\ sink[2].time = sink[1].time
  /\ now < print_time + interval

\* ---------------------------------------------------------------------- C5
\* C5: once an Error line with string fields during and item has been
\* handled, the last point of the sink is an error_message point.
C5_ErrorPointWritten ==
  (/\ pc \in {"read", "done"}
   /\ TypeIs(line, "error")
   /\ \A k \in ErrorFields : line.f[k].t = "str")
    => (Len(sink) > 0 /\ Last(sink).measurement = "error_message")

\* ---------------------------------------------------------------------- C6
\* C6: the step that handles a line that is not JSON goes back to reading
\* and leaves the sink, the pending point, print_time and both outputs as
\* they were.
C6_GarbageSkipped ==
  [][(pc = "parse" /\ line.shape = "garbage" /\ pc' # "parse")
       => pc' = "read" /\ Untouched]_vars

\* a line that is not JSON, skipped after a point was written
C6_Witness ==
  /\ pc = "read"
  /\ line.shape = "garbage"
  /\ nread = 2
  /\ Len(sink) = 1
  /\ stderr = <<>>

\* ---------------------------------------------------------------------- C7
\* C7: a line that is valid JSON without a message_type string never halts
\* the process: after it the loop reads on or the input has ended.
C7_UntypedDiscarded ==
  (line.shape \in {"scalar", "object"} /\ ~HasType(line))
    => pc \in {"parse", "read", "done"}

\* ---------------------------------------------------------------------- C8
\* C8: the step that handles an object whose message_type is a string other
\* than "status", "summary" and "error" goes back to reading and leaves the
\* sink, the pending point, print_time and both outputs as they were.
C8_UnknownSkipped ==
  [][(/\ pc = "parse"
      /\ HasType(line)
      /\ line.f["message_type"].s \notin KnownTypes
      /\ pc' # "parse")
       => pc' = "read" /\ Untouched]_vars

\* "Status", skipped after a point was written
C8_Witness ==
  /\ pc = "read"
  /\ TypeIs(line, "Status")
  /\ nread = 2
  /\ Len(sink) = 1
  /\ stderr = <<>>

\* ---------------------------------------------------------------------- C9
\* the default the specification gives a missing optional field
SpecDefault(k) == IF k = "current_files" THEN StrV("") ELSE NatV(0)

\* a Status line with the four fields the specification requires, the
\* others present and well typed or missing
SpecStatus(l) ==
  /\ TypeIs(l, "status")
  /\ \A k \in {"seconds_elapsed", "total_files", "total_bytes"} : U64Ok(l.f[k])
  /\ F64Ok(l.f["percent_done"])
  /\ \A k \in SpecOptional \ {"current_files"} :
       l.f[k].t \in {"absent", "nat"}
  /\ l.f["current_files"].t \in {"absent", "arr"}

\* C9: such a line, once past the throttle, never ends in a decode failure,
\* and the point made of it carries the default for each field it lacks.
C9_OptionalDefaults ==
  SpecStatus(line) =>
    /\ pc # "panicked"
    /\ pc = "write" =>
         \A k \in SpecOptional :
           line.f[k].t = "absent" => out.f[k] = SpecDefault(k)

\* --------------------------------------------------------------------- C10
\* a Summary or Error line that lacks a required field
LacksRequired(l) ==
  \/ TypeIs(l, "summary") /\ \E k \in SummaryRequired : l.f[k].t = "absent"
  \/ TypeIs(l, "error") /\ \E k \in ErrorFields : l.f[k].t = "absent"

\* C10: such a line is discarded with a diagnostic and the loop reads on:
\* once it is handled the process has not stopped, no point was made of it
\* and the error output is not empty.
C10_DecodeFailureReported ==
  (LacksRequired(line) /\ pc \notin {"parse", "summary"})
    => /\ pc \in {"read", "done"}
       /\ Len(stderr) > 0
       /\ out = NoPoint

\* --------------------------------------------------------------------- C11
\* C11: no step that parses, classifies or decodes a line stops the
\* process: the classification of a line, the decode of a Status line and
\* the decode of a Summary line never end in a panic.
C11_OnlySinkFailureStops ==
  [][(pc \in {"parse", "stamp", "summary"}) => (pc' # "panicked")]_vars

\* --------------------------------------------------------------------- C12
\* C12: a failed write ends the process: the step adds nothing to the sink,
\* keeps no pending point and reads no line, and after it no step is taken
\* (no retry, no later read, no later write).
C12_WriteFailureFatal ==
  [][/\ (pc = "write" /\ pc' # "write" /\ sink' = sink)
          => pc' = "failed" /\ out' = NoPoint /\ nread' = nread
     /\ pc = "failed" => UNCHANGED vars]_vars

\* the write of the first line's point failed; the second line is not read
C12_Witness ==
  /\ pc = "failed"
  /\ nread = 1
  /\ sink = <<>>
  /\ out = NoPoint

\* --------------------------------------------------------------------- C13
\* C13: the sink grows only by the completed write of the pending point,
\* appended after the points of earlier lines, and that point was made of
\* the line read last; a line is read only when no write is pending.
C13_InOrderOneAtATime ==
  [][/\ sink' # sink =>
          /\ pc = "write"
          /\ sink' = Append(sink, out)
          /\ out \in {StatusOut(line, out.time), SummaryOut(line, out.time)}
     /\ nread' # nread =>
          /\ nread' = nread + 1
          /\ pc = "read"
          /\ out = NoPoint
          /\ Len(sink) <= nread
     /\ pc' # "write" => out' = NoPoint]_vars

\* the point of the first line, then the point of the second
C13_Witness ==
  /\ nread = 2
  /\ Len(sink) = 2
  /\ sink[1].measurement = "status_message"
  /\ sink[2].measurement = "summary_message"
  /\ sink[2] = SummaryOut(line, sink[2].time)

\* --------------------------------------------------------------------- C14
\* C14: the time of a point is the clock's value at the step that builds
\* it, the point carries nothing of a "time" key of the line, and the write
\* puts the point in the sink as built.
C14_TimeIsNow ==
  [][/\ (pc # "write" /\ pc' = "write") =>
          out'.time = now /\ out'.f["time"] = AbsentV
     /\ (pc = "write" /\ pc' = "write") => out' = out
     /\ Len(sink') > Len(sink) => Last(sink') = out]_vars

\* a line with "time": 1 whose point is stamped with another time
C14_Witness ==
  /\ nread = 1
  /\ line.f["time"].t = "nat"
  /\ Len(sink) = 1
  /\ sink[1].time # line.f["time"].n

\* --------------------------------------------------------------------- C15
\* C15 as stated: once a line is handled, print_time differs from its seed
\* only if a Status point is in the sink.
C15_ChangesOnlyOnEmission ==
  (pc \in {"read", "done", "panicked", "failed"}
     /\ print_time # start - interval)
    => \E i \in 1..Len(sink) : sink[i].measurement = "status_message"

\* C15 as amended: print_time changes only in the step that follows the
\* passed interval check of a Status line, and becomes the clock's value;
\* no other step (reading, classifying, the check itself, the summary
\* branch, building, a completed or failed write) changes it.
C15_ChangesOnlyAtStamp ==
  [][print_time' # print_time =>
       /\ pc = "stamp"
       /\ TypeIs(line, "status")
       /\ print_time' = now]_vars

\* print_time changed by a Status line whose write failed
C15_Witness ==
  /\ pc = "failed"
  /\ TypeIs(line, "status")
  /\ print_time # start - interval
  /\ sink = <<>>

\* --------------------------------------------------------------------- C16
\* C16: with --dry-run the process handles its input, never writes to the
\* sink and has no write pending; without it every point built and printed
\* is written once the loop is back at reading.
C16_DryRunSkipsSink ==
  /\ dry_run => (pc # "usage" /\ sink = <<>> /\ out = NoPoint)
  /\ (~dry_run /\ pc = "read") => Len(sink) = Len(stdout)

\* --------------------------------------------------------------------- C17
\* C17: on input that is read without error the process ends only at the
\* end of the input or by a failed write, never by a panic; at the end of
\* the input no point is pending and none was made without a line.
C17_EndsAtEndOfInput ==
  /\ (pc = "panicked") => stderr = <<"unwrap on Err">>
  /\ (pc = "done") => (out = NoPoint /\ Len(sink) <= nread)

\* --------------------------------------------------------------------- C18
\* C18: the step after the passed interval check sets print_time to the
\* clock's value, whether or not the decode that follows succeeds; building
\* the point and the write, however long it takes and however it ends,
\* leave print_time at that value.
C18_StampBeforeWrite ==
  [][/\ (pc = "stamp" /\ pc' # "stamp") => print_time' = now
     /\ pc \in {"build", "write"} => print_time' = print_time]_vars

\* a Status write still pending after the clock has moved on, print_time
\* already set for the line
C18_Witness ==
  /\ pc = "write"
  /\ out.measurement = "status_message"
  /\ interval > 0
  /\ print_time = out.time
  /\ print_time < now

\* --------------------------------------------------------------------- C19
\* C19 as stated: before any line is read, print_time is the start time
\* minus twice the interval.
C19_SeedTwoIntervals ==
  (nread = 0 /\ pc = "read") => print_time = start - 2 * interval

\* C19 as amended: before any line is read, print_time is the start time
\* minus the interval.
C19_SeedOneInterval ==
  (nread = 0 /\ pc = "read") => print_time = start - interval

\* no line read yet, some time after the start
C19_Witness ==
  /\ nread = 0
  /\ pc = "read"
  /\ interval > 0
  /\ now > start

\* --------------------------------------------------------------------- C20
\* C20: a Status line checked inside the window goes back to reading with
\* nothing written, printed or changed, whether or not it would decode; and
\* a Status line ends in a decode failure only from the step after a passed
\* check.
C20_CheckBeforeDecode ==
  [][/\ (pc = "status" /\ now < print_time + interval /\ pc' # "status")
          => pc' = "read" /\ Untouched
     /\ (stderr' # stderr /\ Last(stderr') = "Parse error"
           /\ TypeIs(line, "status"))
          => pc = "stamp" /\ now >= print_time + interval]_vars

\* a Status line that would not decode, dropped inside the window
C20_Witness ==
  /\ pc = "read"
  /\ nread = 2
  /\ TypeIs(line, "status")
  /\ ~StatusDecodes(line)
  /\ now < print_time + interval
  /\ stderr = <<>>

====
